---- MODULE Spec2Model ----
(***************************************************************************)
(* rrh2: the relational store (JsonDB: repositories, groups, relations)   *)
(* and the command workflows layered on it.                               *)
(*                                                                         *)
(* Strings are abstracted to the small set Names; repository identifiers  *)
(* and group names share it, as they share one String type in the source. *)
(* Option<T> is a sequence: None is <<>>, Some(x) is <<x>>.                *)
(* Result<T> is a tuple: <<"Ok", value>> or <<"Err", error>>; an error is *)
(* a tuple that starts with the name of the RrhError variant.             *)
(* A Repository keeps its id and path; description and last_access play   *)
(* no part in the operations modelled here.                               *)
(***************************************************************************)
EXTENDS Integers, Sequences, FiniteSets, TLC

\* ---------------------------------------------------------------- bounds
MaxRepos == 2
MaxGroups == 2
MaxRels == 2
MaxNames == 2
MaxTargets == 1
MaxRemoved == 2

Names == {"a", "b"}
\* "p" is a path that exists on the filesystem, "q" one that does not
Paths == {"p", "q"}

VARIABLES
    db,       \* Context.db: [repositories, groups, relations], each a Vec
    envs,     \* Config.envs.get("auto_create_group"), an Option<EnvValue>
    pc,       \* the caller: "ready" to invoke, or "returned" with a Result
    pre,      \* the value of db when the last operation was invoked
    op,       \* the last operation invoked and its arguments
    result,   \* the Result the last operation returned
    file,     \* the content of the backing file at Config.database_path
    writes,   \* how often the running process has written the backing file
    procs,    \* processes run side by side on the one backing file, each
              \* with its position in main.rs perform and its own Context.db
    aliases   \* Config.aliases: HashMap from alias name to its commands

vars == <<db, envs, pc, pre, op, result, file, writes, procs, aliases>>

\* ------------------------------------------------------- Option / Result
None == <<>>
Some(x) == <<x>>
Ok(v) == <<"Ok", v>>
Err(e) == <<"Err", e>>
Unit == "()"
IsOk(r) == r[1] = "Ok"
IsErr(r) == r[1] = "Err"
Arrays(errs) == <<"Arrays", errs>>

\* ------------------------------------------------------------- entities
NewRepository(id, path) == [id |-> id, path |-> path]
new_with(name, note, abbrev) == [name |-> name, note |-> note, abbrev |-> abbrev]
\* Group::new
new(name) == new_with(name, "", Some(FALSE))
\* Relation::new
NewRelation(id, group) == [id |-> id, group |-> group]

JsonDB(repositories, groups, relations) ==
    [repositories |-> repositories, groups |-> groups, relations |-> relations]

\* --------------------------------------------------- iterator helpers
\* Iterator::position over the truth values of the predicate, element by
\* element: the index of the first TRUE, or 0 for None
RECURSIVE PositionFrom(_, _)
PositionFrom(hits, i) ==
    IF i > Len(hits) THEN 0
    ELSE IF hits[i] THEN i
    ELSE PositionFrom(hits, i + 1)

Position(hits) == PositionFrom(hits, 1)

\* Iterator::find(..).cloned(): the first element whose predicate is TRUE
Find(s, hits) ==
    LET i == Position(hits) IN IF i = 0 THEN None ELSE Some(s[i])

\* Vec::remove(i)
Remove(s, i) == SubSeq(s, 1, i - 1) \o SubSeq(s, i + 1, Len(s))

\* ------------------------------------------------------- RefDB (queries)
find_repository(d, id) ==
    Find(d.repositories,
         [i \in 1..Len(d.repositories) |-> d.repositories[i].id = id])

find_group(d, name) ==
    Find(d.groups, [i \in 1..Len(d.groups) |-> d.groups[i].name = name])

has_relation(d, repo_id, group_name) ==
    \E i \in 1..Len(d.relations) :
        d.relations[i].id = repo_id /\ d.relations[i].group = group_name

find_relation(d, repo_id, group_name) ==
    Find(d.relations,
         [i \in 1..Len(d.relations) |->
             d.relations[i].id = repo_id /\ d.relations[i].group = group_name])

find_relation_with_group(d, group_name) ==
    LET P(r) == r.group = group_name IN SelectSeq(d.relations, P)

find_relation_with_repository(d, repo_id) ==
    LET P(r) == r.id = repo_id IN SelectSeq(d.relations, P)

RECURSIVE CollectGroups(_, _, _)
CollectGroups(d, group_names, i) ==
    IF i > Len(group_names) THEN <<>>
    ELSE find_group(d, group_names[i]) \o CollectGroups(d, group_names, i + 1)

find_groups_of(d, id) ==
    LET rels == find_relation_with_repository(d, id)
        group_names == [i \in 1..Len(rels) |-> rels[i].group]
    IN CollectGroups(d, group_names, 1)

RECURSIVE CollectRepositories(_, _, _)
CollectRepositories(d, repo_ids, i) ==
    IF i > Len(repo_ids) THEN <<>>
    ELSE find_repository(d, repo_ids[i])
             \o CollectRepositories(d, repo_ids, i + 1)

find_repositories_of(d, group_name) ==
    LET rels == find_relation_with_group(d, group_name)
        repo_ids == [i \in 1..Len(rels) |-> rels[i].id]
    IN CollectRepositories(d, repo_ids, 1)

\* HashMap::insert: the value of an existing key is replaced
Insert(map, key, value) ==
    [k \in DOMAIN map \cup {key} |-> IF k = key THEN value ELSE map[k]]

RECURSIVE InsertNonEmptyGroups(_, _, _)
InsertNonEmptyGroups(d, i, map) ==
    IF i > Len(d.groups) THEN map
    ELSE LET r == find_repositories_of(d, d.groups[i].name) IN
         InsertNonEmptyGroups(d, i + 1,
             IF r = <<>> THEN map ELSE Insert(map, d.groups[i].name, r))

RECURSIVE InsertGroups(_, _, _)
InsertGroups(d, i, map) ==
    IF i > Len(d.groups) THEN map
    ELSE InsertGroups(d, i + 1,
             Insert(map, d.groups[i].name,
                    find_repositories_of(d, d.groups[i].name)))

group_repositories_of_members(d) == Ok(InsertNonEmptyGroups(d, 1, <<>>))

\* find_repositories_of never fails, so errs stays empty
group_repositories(d) == Ok(InsertGroups(d, 1, <<>>))

\* Itertools::dedup: of consecutive equal elements only the first stays
RECURSIVE Dedup(_, _)
Dedup(xs, i) ==
    IF i > Len(xs) THEN <<>>
    ELSE IF i > 1 /\ xs[i] = xs[i - 1] THEN Dedup(xs, i + 1)
    ELSE <<xs[i]>> \o Dedup(xs, i + 1)

\* Vec::contains
Contains(xs, x) == \E i \in 1..Len(xs) : xs[i] = x

find_orphan_repositories_by_group(d) ==
    LET ids == Dedup([i \in 1..Len(d.relations) |-> d.relations[i].group], 1)
        P(r) == ~Contains(ids, r.id)
    IN SelectSeq(d.repositories, P)

find_orphan_repositories(d) ==
    LET ids == Dedup([i \in 1..Len(d.relations) |-> d.relations[i].id], 1)
        P(r) == ~Contains(ids, r.id)
    IN SelectSeq(d.repositories, P)

find_repository_with_groups(d, id) ==
    LET repo == find_repository(d, id) IN
    IF repo = None THEN None
    ELSE Some([repo |-> repo[1], groups |-> find_groups_of(d, id)])

\* ------------------------------------------------- Database (mutations)
\* Every mutation yields [db |-> the store afterwards, res |-> its Result].
Ret(d, res) == [db |-> d, res |-> res]

\* register_group without the lookup of the name
register_group_unchecked(d, g) ==
    Ret([d EXCEPT !.groups = Append(@, g)], Ok(Unit))

register_group(d, g) ==
    IF find_group(d, g.name) # None
    THEN Ret(d, Err(<<"GroupExists", g.name>>))
    ELSE Ret([d EXCEPT !.groups = Append(@, g)], Ok(Unit))

\* relate without the lookup of an existing relation
relate_push(d, id, group_name) ==
    LET relation == NewRelation(id, group_name) IN
    Ret([d EXCEPT !.relations = Append(@, relation)], Ok(relation))

relate(d, id, group_name) ==
    LET found == find_relation(d, id, group_name) IN
    IF found # None
    THEN Ret(d, Ok(found[1]))
    ELSE LET relation == NewRelation(id, group_name) IN
         Ret([d EXCEPT !.relations = Append(@, relation)], Ok(relation))

delete_relation(d, id, group_name) ==
    LET idx == Position([i \in 1..Len(d.relations) |->
                            d.relations[i].id = id
                                /\ d.relations[i].group = group_name])
    IN IF idx # 0
       THEN Ret([d EXCEPT !.relations = Remove(@, idx)], Ok(Unit))
       ELSE Ret(d, Err(<<"RelationNotFound", id, group_name>>))

\* relation_indexes: filter_map of f over the enumerated relations; f gives
\* for each index the Option<usize> the closure returns there
RECURSIVE FilterMap(_, _)
FilterMap(f, i) ==
    IF i > Len(f) THEN <<>> ELSE f[i] \o FilterMap(f, i + 1)

relation_indexes(d, f) == FilterMap(f, 1)

Reverse(s) == [i \in 1..Len(s) |-> s[Len(s) + 1 - i]]

\* for i in indexes { db.relations.remove(i) }
RECURSIVE RemoveEach(_, _, _)
RemoveEach(rels, indexes, k) ==
    IF k > Len(indexes) THEN rels
    ELSE RemoveEach(Remove(rels, indexes[k]), indexes, k + 1)

\* the cascade selecting on the group field instead of the id field
delete_relation_all_for_repository_by_group(d, id) ==
    LET f == [i \in 1..Len(d.relations) |->
                 IF d.relations[i].group = id THEN Some(i) ELSE None]
        indexes == Reverse(relation_indexes(d, f))
    IN Ret([d EXCEPT !.relations = RemoveEach(@, indexes, 1)], Ok(Unit))

delete_relation_all_for_repository(d, id) ==
    LET f == [i \in 1..Len(d.relations) |->
                 IF d.relations[i].id = id THEN Some(i) ELSE None]
        indexes == Reverse(relation_indexes(d, f))
    IN Ret([d EXCEPT !.relations = RemoveEach(@, indexes, 1)], Ok(Unit))

\* the cascade selecting on the id field instead of the group field
delete_relation_all_for_group_by_id(d, group_name) ==
    LET f == [i \in 1..Len(d.relations) |->
                 IF d.relations[i].id = group_name THEN Some(i) ELSE None]
        indexes == Reverse(relation_indexes(d, f))
    IN Ret([d EXCEPT !.relations = RemoveEach(@, indexes, 1)], Ok(Unit))

delete_relation_all_for_group(d, group_name) ==
    LET f == [i \in 1..Len(d.relations) |->
                 IF d.relations[i].group = group_name THEN Some(i) ELSE None]
        indexes == Reverse(relation_indexes(d, f))
    IN Ret([d EXCEPT !.relations = RemoveEach(@, indexes, 1)], Ok(Unit))

delete_repository(d, id) ==
    LET i == Position([k \in 1..Len(d.repositories) |->
                          d.repositories[k].id = id])
    IN IF i # 0
       THEN delete_relation_all_for_repository(
                [d EXCEPT !.repositories = Remove(@, i)], id)
       ELSE Ret(d, Err(<<"RepositoryNotFound", id>>))

delete_group(d, group_name) ==
    LET idx == Position([k \in 1..Len(d.groups) |->
                            d.groups[k].name = group_name])
    IN IF idx # 0
       THEN delete_relation_all_for_group(
                [d EXCEPT !.groups = Remove(@, idx)], group_name)
       ELSE Ret(d, Err(<<"GroupNotFound", group_name>>))

\* both helpers select on the group field and rewrite the group field
update_relations_all_for_repository(d, old_name, new_name) ==
    Ret([d EXCEPT !.relations =
            [i \in 1..Len(@) |->
                IF @[i].group = old_name
                THEN [@[i] EXCEPT !.group = new_name] ELSE @[i]]],
        Ok(Unit))

update_relations_all_for_group(d, old_name, new_name) ==
    Ret([d EXCEPT !.relations =
            [i \in 1..Len(@) |->
                IF @[i].group = old_name
                THEN [@[i] EXCEPT !.group = new_name] ELSE @[i]]],
        Ok(Unit))

update_group(d, name, group) ==
    LET i == Position([k \in 1..Len(d.groups) |-> d.groups[k].name = name])
    IN IF i # 0
       THEN update_relations_all_for_group(
                [d EXCEPT !.groups[i] = group], name, group.name)
       ELSE Ret(d, Err(<<"GroupNotFound", name>>))

\* update_repository moving the updated entry to the end of the collection
update_repository_at_end(d, id, r) ==
    LET i == Position([k \in 1..Len(d.repositories) |->
                          d.repositories[k].id = id])
    IN IF i = 0
       THEN Ret(d, Err(<<"RepositoryNotFound", id>>))
       ELSE update_relations_all_for_repository(
                [d EXCEPT !.repositories = Append(Remove(@, i), r)], id, r.id)

update_repository(d, id, r) ==
    LET i == Position([k \in 1..Len(d.repositories) |->
                          d.repositories[k].id = id])
    IN IF i = 0
       THEN Ret(d, Err(<<"RepositoryNotFound", id>>))
       ELSE update_relations_all_for_repository(
                [d EXCEPT !.repositories[i] = r], id, r.id)

\* register, first loop: register_group(Group::new(name))? for every name
\* that find_group finds; the ? returns the first error at once
RECURSIVE RegisterGroups(_, _, _)
RegisterGroups(d, group_names, i) ==
    IF i > Len(group_names) THEN Ret(d, Ok(Unit))
    ELSE IF ~(find_group(d, group_names[i]) = None)
         THEN LET g == register_group(d, new(group_names[i])) IN
              IF IsErr(g.res) THEN g
              ELSE RegisterGroups(g.db, group_names, i + 1)
         ELSE RegisterGroups(d, group_names, i + 1)

\* register, second loop: relate every name, collecting the errors
RECURSIVE RelateAll(_, _, _, _, _)
RelateAll(d, id, group_names, i, errs) ==
    IF i > Len(group_names) THEN [db |-> d, errs |-> errs]
    ELSE LET x == relate(d, id, group_names[i]) IN
         RelateAll(x.db, id, group_names, i + 1,
                   IF IsErr(x.res) THEN Append(errs, x.res[2]) ELSE errs)

\* register without the check for an existing identifier
register_unchecked(d, r, group_names) ==
    LET g == RegisterGroups(d, group_names, 1) IN
    IF IsErr(g.res) THEN g
    ELSE LET x == RelateAll(g.db, r.id, group_names, 1, <<>>) IN
         Ret([x.db EXCEPT !.repositories = Append(@, r)],
             IF Len(x.errs) > 0 THEN Err(Arrays(x.errs)) ELSE Ok(Unit))

register(d, r, group_names) ==
    IF find_repository(d, r.id) # None
    THEN Ret(d, Err(<<"RepositoryExists", r.id>>))
    ELSE LET g == RegisterGroups(d, group_names, 1) IN
         IF IsErr(g.res) THEN g
         ELSE LET x == RelateAll(g.db, r.id, group_names, 1, <<>>) IN
              Ret([x.db EXCEPT !.repositories = Append(@, r)],
                  IF Len(x.errs) > 0 THEN Err(Arrays(x.errs)) ELSE Ok(Unit))

\* ------------------------------------------ JsonDB (snapshot document)
\* a JSON document as serde_json writes and reads it: tagged values, an
\* object being the sequence of its <<key, value>> members in field order
JNull == <<"null">>
JBool(b) == <<"bool", b>>
JString(s) == <<"string", s>>
JArray(xs) == <<"array", xs>>
JObject(members) == <<"object", members>>

\* derive(Serialize) of Repository, for the fields the model keeps
SerializeRepository(r) ==
    JObject(<< <<"id", JString(r.id)>>, <<"path", JString(r.path)>> >>)

\* derive(Serialize) of Group: an Option is null or the value
SerializeGroup(g) ==
    JObject(<< <<"name", JString(g.name)>>,
               <<"note", JString(g.note)>>,
               <<"abbrev", IF g.abbrev = None THEN JNull
                           ELSE JBool(g.abbrev[1])>> >>)

SerializeRelation(r) ==
    JObject(<< <<"id", JString(r.id)>>, <<"group", JString(r.group)>> >>)

\* chrono::Utc::now(), the refreshed last_modified
Now == "now"

\* the members are renamed to kebab-case
to_json(d) ==
    Ok(JObject(<<
        <<"last-modified", JString(Now)>>,
        <<"repositories",
          JArray([i \in 1..Len(d.repositories) |->
                     SerializeRepository(d.repositories[i])])>>,
        <<"groups",
          JArray([i \in 1..Len(d.groups) |-> SerializeGroup(d.groups[i])])>>,
        <<"relations",
          JArray([i \in 1..Len(d.relations) |->
                     SerializeRelation(d.relations[i])])>> >>))

\* the value of the member called key, if the object has one
Member(object, key) ==
    LET members == object[2]
        k == Position([i \in 1..Len(members) |-> members[i][1] = key])
    IN IF k = 0 THEN None ELSE Some(members[k][2])

DeserializeRepository(v) ==
    NewRepository(Member(v, "id")[1][2], Member(v, "path")[1][2])

DeserializeGroup(v) ==
    LET abbrev == Member(v, "abbrev")[1] IN
    new_with(Member(v, "name")[1][2], Member(v, "note")[1][2],
             IF abbrev[1] = "null" THEN None ELSE Some(abbrev[2]))

DeserializeRelation(v) ==
    NewRelation(Member(v, "id")[1][2], Member(v, "group")[1][2])

\* derive(Deserialize) of JsonDB over the members whose names are keys
Deserialize(data, keys) ==
    IF data[1] # "object" \/ \E i \in 1..4 : Member(data, keys[i]) = None
    THEN Err(<<"Json">>)
    ELSE LET repositories == Member(data, keys[2])[1][2]
             groups == Member(data, keys[3])[1][2]
             relations == Member(data, keys[4])[1][2]
         IN Ok(JsonDB(
                [i \in 1..Len(repositories) |->
                    DeserializeRepository(repositories[i])],
                [i \in 1..Len(groups) |-> DeserializeGroup(groups[i])],
                [i \in 1..Len(relations) |->
                    DeserializeRelation(relations[i])]))

from_str_snake_case(data) ==
    Deserialize(data,
        <<"last_modified", "repositories", "groups", "relations">>)

from_str(data) ==
    Deserialize(data,
        <<"last-modified", "repositories", "groups", "relations">>)

\* JsonDB::load of the backing file
load(f) == from_str(f)

\* the leading part of a document that a sink took before it stopped
Prefix(data) == <<"prefix", data>>

\* JsonDB::store to a sink that takes all of the bytes ("all"), takes only
\* a leading part of them ("part", still Ok for Write::write) or fails
store(d, out) ==
    LET data == to_json(d) IN
    IF IsErr(data) THEN [sink |-> Prefix(<<>>), res |-> data]
    ELSE IF out = "all" THEN [sink |-> data[2], res |-> Ok(Unit)]
    ELSE IF out = "part" THEN [sink |-> Prefix(data[2]), res |-> Ok(Unit)]
    ELSE [sink |-> Prefix(<<>>), res |-> Err(<<"IO">>)]

\* a file of length zero
Empty == Prefix(<<>>)

\* File::create on an existing file: opened for writing and truncated
create_keeping(f) == f

create(f) == Empty

\* what the sink has taken, written from offset 0 of a file that holds f:
\* a file that another process has filled since the truncation keeps its
\* tail when the bytes written are fewer than it holds (longer is FALSE)
Overwrite_dropped(f, w, longer) == f

Overwrite(f, w, longer) ==
    IF w = Empty THEN f
    ELSE IF f = Empty \/ longer THEN w
    ELSE <<"mixed", w, f>>

\* config.rs store_db: File::create may refuse, and truncates otherwise
store_db(f, d, out) ==
    IF out = "refused" THEN [file |-> f, writes |-> 0, res |-> Err(<<"IO">>)]
    ELSE LET x == store(d, out) IN
         [file |-> x.sink, writes |-> 1, res |-> x.res]

\* Context::store; the configuration file is not part of the model
context_store(f, d, out) == store_db(f, d, out)

perform_storing(f, x, out) == context_store(f, x.db, out)

\* main.rs perform, from the store_flag x.res that the command returned
perform(f, x, out) ==
    IF x.res = Ok(TRUE) THEN context_store(f, x.db, out)
    ELSE [file |-> f, writes |-> 0,
          res |-> IF IsErr(x.res) THEN x.res ELSE Ok(Unit)]

\* ------------------------------------------------------ Config (policy)
\* Config::is_env_value_true on the value of one key
is_env_value_true(v) ==
    IF v = None THEN None
    ELSE IF v[1][1] = "Bool" THEN Some(v[1][2])
    ELSE IF v[1][1] = "Var" THEN Some(v[1][2] \in {"true", "yes"})
    ELSE Some(FALSE)

\* Duration::from_secs(t as u64) of an i32: a negative t wraps to
\* 2^64 + t seconds, kept as such because it exceeds the integers at hand
from_secs_as_u64(t) == IF t >= 0 THEN <<"secs", t>> ELSE <<"2^64 + secs", t>>

\* d > duration for an elapsed time d of fewer than 2^63 seconds
Exceeds(d, duration) == duration[1] = "secs" /\ d > duration[2]

\* SystemTime::elapsed at the clock value now: Err when time is later
elapsed(time, now) == IF time <= now THEN Ok(now - time) ELSE Err(<<"later">>)

\* Config::is_old, setting being self.value of the duration key
is_old(setting, time, now) ==
    LET duration == IF setting # None /\ setting[1][1] = "Value"
                    THEN from_secs_as_u64(setting[1][2])
                    ELSE <<"secs", 24 * 60 * 60>>
        d == elapsed(time, now)
    IN IF IsOk(d) THEN Exceeds(d[2], duration) ELSE TRUE

\* entities.rs update_last_access: metadata is <<"unreadable">>, or
\* readable with the Option that accessed().ok() gives
update_last_access(last_access, metadata) ==
    IF metadata[1] = "unreadable" THEN last_access ELSE metadata[2]

\* Repository::last_access: the value of the field afterwards, which is
\* also the value returned
last_access(stored, setting, metadata, now) ==
    IF stored # None
    THEN IF is_old(setting, stored[1], now)
         THEN update_last_access(stored, metadata)
         ELSE stored
    ELSE update_last_access(stored, metadata)

\* ----------------------------------------------- filesystem (collaborator)
\* Path::exists
exists(path) == path = "p"
\* Path::file_name: the last segment of each path
file_name(path) == IF path = "p" THEN "a" ELSE "b"

\* --------------------------------------------------- commands/add.rs
find_id(path, repository_id) ==
    IF repository_id # None THEN repository_id[1] ELSE file_name(path)

build_repository_from_path(path, repo) ==
    IF ~exists(path) THEN Err(<<"RepositoryPathNotFound", path>>)
    ELSE Ok(NewRepository(find_id(path, repo.repository_id), path))

register_repository(d, r, groups) == register(d, r, groups)

RECURSIVE AddPaths(_, _, _, _)
AddPaths(d, c, i, errs) ==
    IF i > Len(c.paths) THEN [db |-> d, errs |-> errs]
    ELSE LET b == build_repository_from_path(c.paths[i], c.repo) IN
         IF IsErr(b) THEN AddPaths(d, c, i + 1, Append(errs, b[2]))
         ELSE LET x == register_repository(d, b[2], c.repo.group_names) IN
              AddPaths(x.db, c, i + 1,
                       IF IsErr(x.res) THEN Append(errs, x.res[2]) ELSE errs)

perform_add(d, c) ==
    LET x == AddPaths(d, c, 1, <<>>) IN
    Ret(x.db, IF x.errs = <<>> THEN Ok(~c.dry_run) ELSE Err(Arrays(x.errs)))

\* ------------------------------------------------ commands/repository.rs
renew_groups(opts) == Len(opts.new_groups) > 0

\* RepositoryUpdateOpts::build_new_repo
opts_build_new_repo(opts, r) ==
    [id |-> IF opts.id # None THEN opts.id[1] ELSE r.id,
     path |-> IF opts.path # None THEN opts.path[1] ELSE r.path]

find_groups(groups, opts) ==
    IF renew_groups(opts) THEN opts.new_groups
    ELSE [i \in 1..Len(groups) |-> groups[i].name] \o opts.groups

\* build_new_repo: the pair (new_repo, new_groups)
build_new_repo(r, opts) ==
    <<opts_build_new_repo(opts, r.repo), find_groups(r.groups, opts)>>

RECURSIVE RemoveRelations(_, _, _, _, _)
RemoveRelations(d, groups, repo_id, i, errs) ==
    IF i > Len(groups) THEN [db |-> d, errs |-> errs]
    ELSE IF has_relation(d, repo_id, groups[i].name)
         THEN LET x == delete_relation(d, repo_id, groups[i].name) IN
              RemoveRelations(x.db, groups, repo_id, i + 1,
                  IF IsErr(x.res) THEN Append(errs, x.res[2]) ELSE errs)
         ELSE RemoveRelations(d, groups, repo_id, i + 1, errs)

remove_all_relations(d, groups, repo_id) ==
    LET x == RemoveRelations(d, groups, repo_id, 1, <<>>) IN
    Ret(x.db, IF Len(x.errs) > 0 THEN Err(Arrays(x.errs)) ELSE Ok(Unit))

relate_with(d, env, group_name, repo_id) ==
    IF ~has_relation(d, repo_id, group_name)
    THEN LET g == IF find_group(d, group_name) = None
                  THEN IF is_env_value_true(env) = Some(TRUE)
                       THEN register_group(d, new(group_name))
                       ELSE Ret(d, Err(<<"GroupNotFound", group_name>>))
                  ELSE Ret(d, Ok(Unit))
         IN IF IsErr(g.res) THEN g
            ELSE LET x == relate(g.db, repo_id, group_name) IN
                 IF IsErr(x.res) THEN x ELSE Ret(x.db, Ok(Unit))
    ELSE Ret(d, Ok(Unit))

RECURSIVE RelateEach(_, _, _, _, _, _)
RelateEach(d, env, g, id, i, errs) ==
    IF i > Len(g) THEN [db |-> d, errs |-> errs]
    ELSE LET x == relate_with(d, env, g[i], id) IN
         RelateEach(x.db, env, g, id, i + 1,
                    IF IsErr(x.res) THEN Append(errs, x.res[2]) ELSE errs)

repository_update_impl(d, env, old_id, r, g) ==
    LET u == update_repository(d, old_id, r) IN
    IF IsErr(u.res) THEN u
    ELSE LET x == RelateEach(u.db, env, g, r.id, 1, <<>>) IN
         Ret(x.db, IF Len(x.errs) > 0 THEN Err(Arrays(x.errs)) ELSE Ok(TRUE))

\* perform_update registering the repository when the lookup finds nothing
repository_perform_update_or_register(d, env, opts) ==
    LET found == find_repository_with_groups(d, opts.repository_id) IN
    IF found = None
    THEN LET x == register(d, NewRepository(opts.repository_id, "p"), <<>>)
         IN IF IsErr(x.res) THEN x ELSE Ret(x.db, Ok(TRUE))
    ELSE LET r == found[1]
             b == build_new_repo(r, opts)
             x == IF renew_groups(opts)
                  THEN remove_all_relations(d, r.groups, opts.repository_id)
                  ELSE Ret(d, Ok(Unit))
         IN IF IsErr(x.res) THEN x
            ELSE repository_update_impl(x.db, env, opts.repository_id,
                                        b[1], b[2])

repository_perform_update(d, env, opts) ==
    LET found == find_repository_with_groups(d, opts.repository_id) IN
    IF found = None
    THEN Ret(d, Err(<<"RepositoryNotFound", opts.repository_id>>))
    ELSE LET r == found[1]
             b == build_new_repo(r, opts)
             x == IF renew_groups(opts)
                  THEN remove_all_relations(d, r.groups, opts.repository_id)
                  ELSE Ret(d, Ok(Unit))
         IN IF IsErr(x.res) THEN x
            ELSE repository_update_impl(x.db, env, opts.repository_id,
                                        b[1], b[2])

RECURSIVE RemoveRepositories(_, _, _, _)
RemoveRepositories(d, ids, i, errs) ==
    IF i > Len(ids) THEN [db |-> d, errs |-> errs]
    ELSE LET x == delete_repository(d, ids[i]) IN
         RemoveRepositories(x.db, ids, i + 1,
             IF IsErr(x.res) THEN Append(errs, x.res[2]) ELSE errs)

repository_perform_remove(d, opts) ==
    IF Len(opts.ids) > 0
    THEN LET x == RemoveRepositories(d, opts.ids, 1, <<>>) IN
         Ret(x.db, IF Len(x.errs) > 0 THEN Err(Arrays(x.errs)) ELSE Ok(TRUE))
    ELSE Ret(d, Ok(FALSE))

\* ----------------------------------------------------- commands/group.rs
RECURSIVE AddGroups(_, _, _, _)
AddGroups(d, opts, i, errs) ==
    IF i > Len(opts.names) THEN [db |-> d, errs |-> errs]
    ELSE LET name == opts.names[i]
             e1 == IF find_group(d, name) # None
                   THEN Append(errs, <<"GroupExists", name>>) ELSE errs
             group == new_with(name,
                               IF opts.note # None THEN opts.note[1] ELSE "",
                               Some(opts.abbrev))
             x == register_group(d, group)
         IN AddGroups(x.db, opts, i + 1,
                      IF IsErr(x.res) THEN Append(e1, x.res[2]) ELSE e1)

group_perform_add(d, opts) ==
    LET x == AddGroups(d, opts, 1, <<>>) IN
    Ret(x.db, IF Len(x.errs) = 0 THEN Ok(~opts.dry_run)
              ELSE Err(Arrays(x.errs)))

RECURSIVE RemoveGroups(_, _, _, _)
RemoveGroups(d, opts, i, errs) ==
    IF i > Len(opts.args) THEN [db |-> d, errs |-> errs]
    ELSE LET name == opts.args[i] IN
         IF ~opts.force /\ Len(find_relation_with_group(d, name)) > 0
         THEN RemoveGroups(d, opts, i + 1,
                           Append(errs, <<"GroupNotEmpty", name>>))
         ELSE LET x == delete_group(d, name) IN
              RemoveGroups(x.db, opts, i + 1,
                  IF IsErr(x.res) THEN Append(errs, x.res[2]) ELSE errs)

\* perform_remove that never looks at the relations of the group
group_perform_remove_unguarded(d, opts) ==
    LET x == RemoveGroups(d, [opts EXCEPT !.force = TRUE], 1, <<>>) IN
    Ret(x.db, IF Len(x.errs) > 0 THEN Err(Arrays(x.errs))
              ELSE Ok(~opts.dry_run))

group_perform_remove(d, opts) ==
    LET x == RemoveGroups(d, opts, 1, <<>>) IN
    Ret(x.db, IF Len(x.errs) > 0 THEN Err(Arrays(x.errs))
              ELSE Ok(~opts.dry_run))

\* GroupUpdateOpts::build_new_group
build_new_group(opts, group) ==
    [name |-> IF opts.rename_to # None THEN opts.rename_to[1] ELSE group.name,
     note |-> IF opts.note # None THEN opts.note[1] ELSE group.note,
     abbrev |-> IF opts.abbrev # None THEN Some(opts.abbrev[1])
                ELSE group.abbrev]

group_perform_update(d, opts) ==
    LET group == find_group(d, opts.name) IN
    IF group = None THEN Ret(d, Err(<<"GroupNotFound", opts.name>>))
    ELSE LET x == update_group(d, opts.name, build_new_group(opts, group[1]))
         IN IF IsErr(x.res) THEN x ELSE Ret(x.db, Ok(~opts.dry_run))

\* ----------------------------------------------------- commands/prune.rs
\* RepoOrGroup: <<"R", repository>> or <<"G", group>>
\* find_repo_or_group taking a name that is both for the repository
find_repo_or_group_repository_first(d, name) ==
    LET r == find_repository(d, name)
        g == find_group(d, name)
    IN IF r # None THEN Ok(<<"R", r[1]>>)
       ELSE IF g # None THEN Ok(<<"G", g[1]>>)
       ELSE Err(<<"RepositoryAndGroupNotFound", name>>)

find_repo_or_group(d, name) ==
    LET r == find_repository(d, name)
        g == find_group(d, name)
    IN IF r # None /\ g = None THEN Ok(<<"R", r[1]>>)
       ELSE IF r = None /\ g # None THEN Ok(<<"G", g[1]>>)
       ELSE IF r = None /\ g = None
            THEN Err(<<"RepositoryAndGroupNotFound", name>>)
       ELSE Err(<<"RepositoryAndGroupExists", name>>)

rename_repository(d, env, old_name, new_name, dry_run) ==
    repository_perform_update(d, env,
        [id |-> Some(new_name), path |-> None, groups |-> <<>>,
         new_groups |-> <<>>, repository_id |-> old_name,
         dry_run |-> dry_run])

rename_group(d, old_name, new_name, dry_run) ==
    group_perform_update(d,
        [abbrev |-> None, note |-> None, rename_to |-> Some(new_name),
         name |-> old_name, dry_run |-> dry_run])

perform_rename_unchecked(d, env, opts) ==
    IF opts.repository
    THEN rename_repository(d, env, opts.from, opts.to_name, opts.dry_run)
    ELSE IF opts.group
    THEN rename_group(d, opts.from, opts.to_name, opts.dry_run)
    ELSE LET f == find_repo_or_group(d, opts.from) IN
         IF IsErr(f) THEN Ret(d, f)
         ELSE IF f[2][1] = "R"
         THEN rename_repository(d, env, f[2][2].id, opts.to_name,
                                opts.dry_run)
         ELSE rename_group(d, f[2][2].name, opts.to_name, opts.dry_run)

perform_rename(d, env, opts) ==
    IF opts.repository
    THEN rename_repository(d, env, opts.from, opts.to_name, opts.dry_run)
    ELSE IF opts.group
    THEN rename_group(d, opts.from, opts.to_name, opts.dry_run)
    ELSE LET f == find_repo_or_group(d, opts.from)
             t == find_repo_or_group(d, opts.to_name)
         IN IF IsErr(f) THEN Ret(d, f)
            ELSE IF f[2][1] = "R"
            THEN IF IsOk(t) /\ t[2][1] = "G"
                 THEN rename_repository(d, env, f[2][2].id, opts.to_name,
                                        opts.dry_run)
                 ELSE IF IsOk(t)
                 THEN Ret(d, Err(<<"ToNameExist", t[2][2].id>>))
                 ELSE IF t[2][1] = "RepositoryAndGroupNotFound"
                 THEN rename_repository(d, env, f[2][2].id, opts.to_name,
                                        opts.dry_run)
                 ELSE Ret(d, Err(<<"ToNameExist", f[2][2].id>>))
            ELSE IF IsOk(t) /\ t[2][1] = "R"
                 THEN rename_group(d, f[2][2].name, opts.to_name,
                                   opts.dry_run)
                 ELSE IF IsOk(t)
                 THEN Ret(d, Err(<<"ToNameExist", t[2][2].name>>))
                 ELSE IF t[2][1] = "RepositoryAndGroupNotFound"
                 THEN rename_group(d, f[2][2].name, opts.to_name,
                                   opts.dry_run)
                 ELSE Ret(d, Err(<<"ToNameExist", f[2][2].name>>))

remove_repository(d, name, opts) ==
    repository_perform_remove(d, [ids |-> <<name>>, dry_run |-> opts.dry_run])

remove_group(d, name, opts) ==
    group_perform_remove(d,
        [force |-> opts.force, args |-> <<name>>, dry_run |-> opts.dry_run])

RECURSIVE RemoveTargets(_, _, _, _)
RemoveTargets(d, opts, i, errs) ==
    IF i > Len(opts.targets) THEN [db |-> d, errs |-> errs]
    ELSE LET name == opts.targets[i]
             f == find_repo_or_group(d, name)
             x == IF IsErr(f) THEN Ret(d, f)
                  ELSE IF f[2][1] = "R" THEN remove_repository(d, name, opts)
                  ELSE remove_group(d, name, opts)
         IN RemoveTargets(x.db, opts, i + 1,
                IF IsErr(x.res) THEN Append(errs, x.res[2]) ELSE errs)

\* perform_remove that handles the first target only
perform_remove_first_target(d, opts) ==
    LET first == [opts EXCEPT
                     !.targets = IF Len(@) > 1 THEN <<@[1]>> ELSE @]
        x == RemoveTargets(d, first, 1, <<>>)
    IN Ret(x.db, IF Len(x.errs) > 0 THEN Err(Arrays(x.errs))
                 ELSE Ok(~opts.dry_run))

perform_remove(d, opts) ==
    LET x == RemoveTargets(d, opts, 1, <<>>) IN
    Ret(x.db, IF Len(x.errs) > 0 THEN Err(Arrays(x.errs))
              ELSE Ok(~opts.dry_run))

find_non_exists_path_repositoreis(d) ==
    LET P(r) == ~exists(r.path) IN SelectSeq(d.repositories, P)

is_empty_group(d, group_name) == Len(find_repositories_of(d, group_name)) = 0

find_empty_groups(d) ==
    LET P(g) == is_empty_group(d, g.name)
        empty == SelectSeq(d.groups, P)
    IN [i \in 1..Len(empty) |-> empty[i].name]

RECURSIVE DeleteGroups(_, _, _, _)
DeleteGroups(d, target_groups, i, errs) ==
    IF i > Len(target_groups) THEN [db |-> d, errs |-> errs]
    ELSE LET x == delete_group(d, target_groups[i]) IN
         DeleteGroups(x.db, target_groups, i + 1,
             IF IsErr(x.res) THEN Append(errs, x.res[2]) ELSE errs)

RECURSIVE DeleteRepositories(_, _, _, _)
DeleteRepositories(d, target_repos, i, errs) ==
    IF i > Len(target_repos) THEN [db |-> d, errs |-> errs]
    ELSE LET x == delete_repository(d, target_repos[i].id) IN
         DeleteRepositories(x.db, target_repos, i + 1,
             IF IsErr(x.res) THEN Append(errs, x.res[2]) ELSE errs)

prune_impl(d, target_groups, target_repos) ==
    LET g == DeleteGroups(d, target_groups, 1, <<>>)
        r == DeleteRepositories(g.db, target_repos, 1, g.errs)
    IN Ret(r.db, IF Len(r.errs) > 0 THEN Err(Arrays(r.errs)) ELSE Ok(TRUE))

perform_prune_unasked(d, opts, answer) ==
    LET target_groups == find_empty_groups(d)
        target_repos == find_non_exists_path_repositoreis(d)
        x == prune_impl(d, target_groups, target_repos)
    IN IF x.res = Ok(TRUE) THEN Ret(x.db, Ok(~opts.dry_run)) ELSE x

perform_prune_signalling(d, opts, answer) ==
    LET target_groups == find_empty_groups(d)
        target_repos == find_non_exists_path_repositoreis(d)
    IN IF opts.inquiry /\ answer = Ok(FALSE) THEN Ret(d, Ok(FALSE))
       ELSE IF opts.inquiry /\ IsErr(answer)
       THEN Ret(d, Err(IF answer[2][1] = "IO" THEN answer[2]
                       ELSE <<"Fatal", answer[2][1]>>))
       ELSE prune_impl(d, target_groups, target_repos)

\* answer is what inquire::prompt_confirmation returns when it is called
perform_prune(d, opts, answer) ==
    LET target_groups == find_empty_groups(d)
        target_repos == find_non_exists_path_repositoreis(d)
    IN IF opts.inquiry /\ answer = Ok(FALSE) THEN Ret(d, Ok(FALSE))
       ELSE IF opts.inquiry /\ IsErr(answer)
       THEN Ret(d, Err(IF answer[2][1] = "IO" THEN answer[2]
                       ELSE <<"Fatal", answer[2][1]>>))
       ELSE LET x == prune_impl(d, target_groups, target_repos) IN
            IF x.res = Ok(TRUE) THEN Ret(x.db, Ok(~opts.dry_run)) ELSE x

\* ----------------------------------------------------- commands/alias.rs
\* alias.rs AliasManager for the HashMap: find, register, update, delete
alias_find(manager, alias_name) ==
    IF alias_name \in DOMAIN manager
    THEN Some([name |-> alias_name, commands |-> manager[alias_name]])
    ELSE None

alias_register(manager, alias) ==
    [aliases |-> Insert(manager, alias.name, alias.commands),
     res |-> Ok(Unit)]

alias_update(manager, alias) ==
    IF alias.name \notin DOMAIN manager
    THEN [aliases |-> manager,
          res |-> Err(<<"CliOptsInvalid", "alias_update", "alias not found">>)]
    ELSE alias_register(manager, alias)

alias_delete(manager, alias_name) ==
    [aliases |-> [k \in DOMAIN manager \ {alias_name} |-> manager[k]],
     res |-> Ok(Unit)]

find_mode(c) ==
    IF c.update THEN "Upadte"
    ELSE IF c.remove THEN "Remove"
    ELSE IF Len(c.arguments) = 0 THEN "List"
    ELSE "Register"

validate_alias_name(alias, command) ==
    IF alias = None
    THEN <<<<"CliOptsInvalid", command, "No alias provided">>>>
    ELSE <<>>

validate_remove(c, manager) ==
    validate_alias_name(c.alias, "alias_remove")
    \o IF c.alias # None /\ alias_find(manager, c.alias[1]) = None
       THEN <<<<"CliOptsInvalid", "alias_remove", "alias not found">>>>
       ELSE <<>>

validate_register(c, manager) ==
    validate_alias_name(c.alias, "alias_register")
    \o (IF Len(c.arguments) = 0
        THEN <<<<"CliOptsInvalid", "alias_register", "No commands provided">>>>
        ELSE <<>>)
    \o IF c.alias # None /\ alias_find(manager, c.alias[1]) # None
       THEN <<<<"CliOptsInvalid", "alias_register", "already exist alias">>>>
       ELSE <<>>

validate_update(c, manager) ==
    validate_alias_name(c.alias, "alias_update")
    \o IF c.alias # None /\ alias_find(manager, c.alias[1]) = None
       THEN <<<<"CliOptsInvalid", "alias_update", "alias not found">>>>
       ELSE <<>>

\* AliasOpts::validate
validate(c, manager) ==
    LET mode == find_mode(c)
        errs == (IF c.update /\ c.remove
                 THEN <<<<"CliOptsInvalid", "alias",
                          "Cannot update and remove at the same time">>>>
                 ELSE <<>>)
                \o IF mode = "Register" THEN validate_register(c, manager)
                   ELSE IF mode = "Upadte" THEN validate_update(c, manager)
                   ELSE IF mode = "Remove" THEN validate_remove(c, manager)
                   ELSE <<>>
    IN IF Len(errs) = 0 THEN Ok(mode) ELSE Err(Arrays(errs))

\* AliasOpts::build_alias
build_alias(c) ==
    IF Len(c.arguments) = 0 THEN None
    ELSE IF c.alias = None THEN None
    ELSE Some([name |-> c.alias[1], commands |-> c.arguments])

\* the outcome of unreachable!(): the process panics
Unreachable == <<"Panic", "unreachable">>

alias_perform_list(manager) == [aliases |-> manager, res |-> Ok(FALSE)]

alias_perform_register(manager, c) ==
    IF build_alias(c) # None
    THEN LET x == alias_register(manager, build_alias(c)[1]) IN
         [aliases |-> x.aliases, res |-> IF IsOk(x.res) THEN Ok(TRUE) ELSE x.res]
    ELSE [aliases |-> manager, res |-> Unreachable]

alias_perform_update(manager, c) ==
    IF build_alias(c) # None
    THEN LET x == alias_update(manager, build_alias(c)[1]) IN
         [aliases |-> x.aliases, res |-> IF IsOk(x.res) THEN Ok(TRUE) ELSE x.res]
    ELSE [aliases |-> manager, res |-> Unreachable]

alias_perform_remove(manager, c) ==
    IF c.alias # None
    THEN LET x == alias_delete(manager, c.alias[1]) IN
         [aliases |-> x.aliases, res |-> IF IsOk(x.res) THEN Ok(TRUE) ELSE x.res]
    ELSE [aliases |-> manager, res |-> Unreachable]

\* commands/alias.rs perform
alias_perform(manager, c) ==
    LET v == validate(c, manager) IN
    IF IsErr(v) THEN [aliases |-> manager, res |-> v]
    ELSE IF v[2] = "List" THEN alias_perform_list(manager)
    ELSE IF v[2] = "Register" THEN alias_perform_register(manager, c)
    ELSE IF v[2] = "Upadte" THEN alias_perform_update(manager, c)
    ELSE IF v[2] = "Remove" THEN alias_perform_remove(manager, c)
    ELSE [aliases |-> manager, res |-> Unreachable]

\* ------------------------------------------------------------- inputs
RECURSIVE SeqsUpTo(_, _)
SeqsUpTo(S, n) ==
    IF n = 0 THEN {<<>>}
    ELSE LET shorter == SeqsUpTo(S, n - 1) IN
         shorter \cup {Append(s, x) : s \in shorter, x \in S}

\* the values passed to the Database trait: repositories at the existing
\* path, groups as Group::new makes them
Repositories == {NewRepository(id, "p") : id \in Names}
Groups == {new(name) : name \in Names}
NameLists == SeqsUpTo(Names, MaxNames)
\* the lists of names and of paths that a command line carries
Targets == SeqsUpTo(Names, MaxTargets)
PathLists == SeqsUpTo(Paths, MaxTargets)
OptNames == {None} \cup {Some(n) : n \in Names}

AddOpts ==
    [paths : PathLists,
     repo : [repository_id : OptNames, group_names : Targets],
     dry_run : {FALSE}]

RepositoryUpdateOpts ==
    [id : OptNames, path : {None}, groups : Targets,
     new_groups : Targets, repository_id : Names, dry_run : {FALSE}]

GroupAddOpts ==
    [names : Targets, note : {None}, abbrev : {FALSE}, dry_run : {FALSE}]

GroupUpdateOpts ==
    {[abbrev |-> v[1], note |-> v[2], rename_to |-> rename_to,
      name |-> name, dry_run |-> FALSE] :
        v \in {<<None, None>>, <<Some(TRUE), Some("n")>>},
        rename_to \in OptNames, name \in Names}

RenameOpts ==
    [repository : BOOLEAN, group : BOOLEAN, from : Names, to_name : Names,
     dry_run : {FALSE}]

\* repositories whose directory may be gone, and the lists of names that
\* the removal commands carry
RepositoriesAnywhere == {NewRepository(id, path) : id \in Names, path \in Paths}
Removed == SeqsUpTo(Names, MaxRemoved)
RepositoryRemoveOpts == [ids : Removed, dry_run : {FALSE}]
GroupRemoveOpts == [force : BOOLEAN, args : Removed, dry_run : {FALSE}]
RemoveOpts == [force : BOOLEAN, targets : Removed, dry_run : {FALSE}]

PruneOpts == [inquiry : BOOLEAN, dry_run : BOOLEAN]
\* Result<bool, InquireError> of the confirmation prompt
Answers == {Ok(TRUE), Ok(FALSE), Err(<<"IO">>), Err(<<"NotTTY">>)}

\* what the sink of the backing file does with the document
Sinks == {"all", "part", "failed", "refused"}

\* the clock, in seconds, and the timestamps around the staleness limits
Clock == 200000
Day == 24 * 60 * 60
Times ==
    {Clock - Day - 1, Clock - Day, Clock - 61, Clock - 60, Clock, Clock + 60}
Timestamps == {None} \cup {Some(t) : t \in Times}
\* Config::value of last_access_reload_duration_secs
DurationSettings ==
    {None, Some(<<"Value", 60>>), Some(<<"Value", 0>>), Some(<<"Value", -1>>),
     Some(<<"Var", "60">>), Some(<<"Bool", TRUE>>)}
\* Path::metadata of the repository path and, when it is readable, accessed
Metadata ==
    {<<"unreadable">>, <<"readable", None>>, <<"readable", Some(Clock)>>}

\* the command lists of an alias and the options of the alias command
CommandLists == {<<>>, <<"list">>, <<"find">>}
AliasOpts ==
    [update : BOOLEAN, remove : BOOLEAN, alias : OptNames,
     arguments : CommandLists]

\* the processes that may run at the same time, and a process that has
\* not loaded anything yet
Procs == {1, 2}
NoProcess ==
    [pc |-> "start", at |-> "start", loaded |-> JsonDB(<<>>, <<>>, <<>>),
     db |-> JsonDB(<<>>, <<>>, <<>>), flag |-> Ok(FALSE), out |-> "all"]

\* the store stays within the bounds of the model
Fits(d) ==
    /\ Len(d.repositories) <= MaxRepos
    /\ Len(d.groups) <= MaxGroups
    /\ Len(d.relations) <= MaxRels

NoOp == [name |-> "none"]

\* EnvValue::Bool(b); the key may also be absent from Config.envs
EnvValues == {None, Some(<<"Bool", TRUE>>), Some(<<"Bool", FALSE>>)}

\* ---------------------------------------------------------------- Init
\* JsonDB of a fresh database file: three empty collections
InitStore ==
    /\ db = JsonDB(<<>>, <<>>, <<>>)
    /\ pc = "ready"
    /\ pre = db
    /\ op = NoOp
    /\ file = to_json(db)[2]
    /\ writes = 0
    /\ result = Ok(Unit)
    /\ procs = [p \in Procs |-> NoProcess]
    /\ aliases = <<>>

\* a Context whose configuration does not set auto_create_group
Init ==
    /\ InitStore
    /\ envs = None

\* a Context with any configuration of auto_create_group
InitCmd ==
    /\ InitStore
    /\ envs \in EnvValues

\* the caller invokes an operation that returns x
Call(o, x) ==
    /\ pc = "ready"
    /\ Fits(x.db)
    /\ pre' = db
    /\ db' = x.db
    /\ op' = o
    /\ result' = x.res
    /\ pc' = "returned"
    /\ UNCHANGED <<envs, file, writes, procs, aliases>>

\* the caller takes the Result and goes on
Continue ==
    /\ pc = "returned"
    /\ pc' = "ready"
    /\ pre' = db
    /\ op' = NoOp
    /\ result' = Ok(Unit)
    /\ UNCHANGED <<db, envs, file, writes, procs, aliases>>

\* ------------------------------------------- actions: the Database trait
Register ==
    \E r \in Repositories, group_names \in NameLists :
        Call([name |-> "register", r |-> r, group_names |-> group_names],
             register(db, r, group_names))

RegisterGroup ==
    \E g \in Groups :
        Call([name |-> "register_group", g |-> g], register_group(db, g))

UpdateGroup ==
    \E name \in Names, group \in Groups :
        Call([name |-> "update_group", old |-> name, group |-> group],
             update_group(db, name, group))

UpdateRepository ==
    \E id \in Names, r \in Repositories :
        Call([name |-> "update_repository", id |-> id, r |-> r],
             update_repository(db, id, r))

Relate ==
    \E id \in Names, group_name \in Names :
        Call([name |-> "relate", id |-> id, group |-> group_name],
             relate(db, id, group_name))

DeleteRelation ==
    \E id \in Names, group_name \in Names :
        Call([name |-> "delete_relation", id |-> id, group |-> group_name],
             delete_relation(db, id, group_name))

DeleteRepository ==
    \E id \in Names :
        Call([name |-> "delete_repository", id |-> id],
             delete_repository(db, id))

DeleteGroup ==
    \E group_name \in Names :
        Call([name |-> "delete_group", group |-> group_name],
             delete_group(db, group_name))

Next ==
    \/ Register
    \/ RegisterGroup
    \/ UpdateGroup
    \/ UpdateRepository
    \/ Relate
    \/ DeleteRelation
    \/ DeleteRepository
    \/ DeleteGroup
    \/ Continue

Spec == Init /\ [][Next]_vars

\* --------------------------------- actions: the trait with its listing
GroupRepositories ==
    Call([name |-> "group_repositories"], Ret(db, group_repositories(db)))

FindGroupsOf ==
    \E id \in Names :
        Call([name |-> "find_groups_of", id |-> id],
             Ret(db, Ok(find_groups_of(db, id))))

FindRepositoriesOf ==
    \E group_name \in Names :
        Call([name |-> "find_repositories_of", group_name |-> group_name],
             Ret(db, Ok(find_repositories_of(db, group_name))))

FindOrphanRepositories ==
    Call([name |-> "find_orphan_repositories"],
         Ret(db, Ok(find_orphan_repositories(db))))

NextQuery ==
    \/ Register
    \/ RegisterGroup
    \/ UpdateGroup
    \/ UpdateRepository
    \/ Relate
    \/ DeleteRelation
    \/ DeleteRepository
    \/ DeleteGroup
    \/ GroupRepositories
    \/ FindGroupsOf
    \/ FindRepositoriesOf
    \/ FindOrphanRepositories
    \/ Continue

SpecQuery == Init /\ [][NextQuery]_vars

\* ------------------------------------------------ actions: the commands
PerformAdd ==
    \E c \in AddOpts :
        Call([name |-> "add", opts |-> c], perform_add(db, c))

RepositoryPerformUpdate ==
    \E opts \in RepositoryUpdateOpts :
        Call([name |-> "repository update", opts |-> opts],
             repository_perform_update(db, envs, opts))

GroupPerformAdd ==
    \E opts \in GroupAddOpts :
        Call([name |-> "group add", opts |-> opts],
             group_perform_add(db, opts))

GroupPerformUpdate ==
    \E opts \in GroupUpdateOpts :
        Call([name |-> "group update", opts |-> opts],
             group_perform_update(db, opts))

PerformRename ==
    \E opts \in RenameOpts :
        Call([name |-> "rename", opts |-> opts],
             perform_rename(db, envs, opts))

NextCmd ==
    \/ PerformAdd
    \/ RepositoryPerformUpdate
    \/ GroupPerformAdd
    \/ GroupPerformUpdate
    \/ PerformRename
    \/ Continue

SpecCmd == InitCmd /\ [][NextCmd]_vars

\* ------------------------------- actions: the repository update workflow
\* invoked on stores that calls of the Database trait have filled
NextUpdate ==
    \/ Register
    \/ RegisterGroup
    \/ Relate
    \/ RepositoryPerformUpdate
    \/ Continue

SpecUpdate == Init /\ [][NextUpdate]_vars


\* --------------------------------------- actions: the rename workflow
\* invoked on stores that calls of the Database trait have filled
NextRename ==
    \/ Register
    \/ RegisterGroup
    \/ Relate
    \/ PerformRename
    \/ Continue

SpecRename == Init /\ [][NextRename]_vars

\* ------------------------------------- actions: the removal commands
\* invoked on stores that calls of the Database trait have filled
RegisterAnywhere ==
    \E r \in RepositoriesAnywhere, group_names \in NameLists :
        Call([name |-> "register", r |-> r, group_names |-> group_names],
             register(db, r, group_names))

RepositoryPerformRemove ==
    \E opts \in RepositoryRemoveOpts :
        Call([name |-> "repository remove", opts |-> opts],
             repository_perform_remove(db, opts))

GroupPerformRemove ==
    \E opts \in GroupRemoveOpts :
        Call([name |-> "group remove", opts |-> opts],
             group_perform_remove(db, opts))

PerformRemove ==
    \E opts \in RemoveOpts :
        Call([name |-> "remove", opts |-> opts], perform_remove(db, opts))

\* without --inquiry the prompt is not called and no answer is read
PerformPrune ==
    \E opts \in PruneOpts, answer \in Answers :
        /\ ~opts.inquiry => answer = Ok(TRUE)
        /\ Call([name |-> "prune", opts |-> opts, answer |-> answer],
                perform_prune(db, opts, answer))

NextRemove ==
    \/ RegisterAnywhere
    \/ RegisterGroup
    \/ Relate
    \/ RepositoryPerformRemove
    \/ GroupPerformRemove
    \/ PerformRemove
    \/ PerformPrune
    \/ Continue

SpecRemove == Init /\ [][NextRemove]_vars

\* --------------------------------------------- actions: one invocation
\* main.rs perform: the process loads the backing file, runs the command
\* that returns x on the loaded store and stores according to x.res
Invoke(o, x, out) ==
    /\ pc = "ready"
    /\ load(file) = Ok(db)
    /\ Fits(x.db)
    /\ x.res # Ok(TRUE) => out = "all"
    /\ pre' = db
    /\ db' = x.db
    /\ op' = o
    /\ result' = x.res
    /\ file' = perform(file, x, out).file
    /\ writes' = perform(file, x, out).writes
    /\ pc' = "returned"
    /\ UNCHANGED <<envs, procs, aliases>>

\* the process exits and the next one loads the backing file; when the
\* file does not parse no Context is built and no command runs
Exit ==
    /\ pc = "returned"
    /\ pc' = "ready"
    /\ db' = IF IsOk(load(file)) THEN load(file)[2] ELSE db
    /\ pre' = db'
    /\ op' = NoOp
    /\ result' = Ok(Unit)
    /\ writes' = 0
    /\ UNCHANGED <<envs, file, procs, aliases>>

MainAdd ==
    \E c \in AddOpts, out \in Sinks :
        Invoke([name |-> "add", opts |-> c, out |-> out],
               perform_add(db, c), out)

MainGroupAdd ==
    \E opts \in GroupAddOpts, out \in Sinks :
        Invoke([name |-> "group add", opts |-> opts, out |-> out],
               group_perform_add(db, opts), out)

MainRemove ==
    \E opts \in RemoveOpts, out \in Sinks :
        Invoke([name |-> "remove", opts |-> opts, out |-> out],
               perform_remove(db, opts), out)

MainPrune ==
    \E opts \in PruneOpts, answer \in Answers, out \in Sinks :
        /\ ~opts.inquiry => answer = Ok(TRUE)
        /\ Invoke([name |-> "prune", opts |-> opts, answer |-> answer,
                   out |-> out],
                  perform_prune(db, opts, answer), out)

NextMain ==
    \/ MainAdd
    \/ MainGroupAdd
    \/ MainRemove
    \/ MainPrune
    \/ Exit

SpecMain == Init /\ [][NextMain]_vars

\* --------------------------------- actions: the commands with --dry-run
DryRun(opts) == [opts EXCEPT !.dry_run = TRUE]

DryGroupAdd ==
    \E opts \in GroupAddOpts :
        Call([name |-> "group add", opts |-> DryRun(opts)],
             group_perform_add(db, DryRun(opts)))

DryGroupRemove ==
    \E opts \in GroupRemoveOpts :
        Call([name |-> "group remove", opts |-> DryRun(opts)],
             group_perform_remove(db, DryRun(opts)))

DryGroupUpdate ==
    \E opts \in GroupUpdateOpts :
        Call([name |-> "group update", opts |-> DryRun(opts)],
             group_perform_update(db, DryRun(opts)))

DryRepositoryUpdate ==
    \E opts \in RepositoryUpdateOpts :
        Call([name |-> "repository update", opts |-> DryRun(opts)],
             repository_perform_update(db, envs, DryRun(opts)))

DryRepositoryRemove ==
    \E opts \in RepositoryRemoveOpts :
        Call([name |-> "repository remove", opts |-> DryRun(opts)],
             repository_perform_remove(db, DryRun(opts)))

DryRename ==
    \E opts \in RenameOpts :
        Call([name |-> "rename", opts |-> DryRun(opts)],
             perform_rename(db, envs, DryRun(opts)))

DryRemove ==
    \E opts \in RemoveOpts :
        Call([name |-> "remove", opts |-> DryRun(opts)],
             perform_remove(db, DryRun(opts)))

DryPrune ==
    \E opts \in PruneOpts, answer \in Answers :
        /\ ~opts.inquiry => answer = Ok(TRUE)
        /\ Call([name |-> "prune", opts |-> DryRun(opts), answer |-> answer],
                perform_prune(db, DryRun(opts), answer))

\* on stores that calls of the Database trait have filled
NextDryRun ==
    \/ Register
    \/ RegisterGroup
    \/ Relate
    \/ DryGroupAdd
    \/ DryGroupRemove
    \/ DryGroupUpdate
    \/ DryRepositoryUpdate
    \/ DryRepositoryRemove
    \/ DryRename
    \/ DryRemove
    \/ DryPrune
    \/ Continue

SpecDryRun == Init /\ [][NextDryRun]_vars

\* -------------------------------------- actions: the alias command
PerformAlias ==
    \E c \in AliasOpts :
        /\ pc = "ready"
        /\ pc' = "returned"
        /\ op' = [name |-> "alias", opts |-> c, manager |-> aliases]
        /\ aliases' = alias_perform(aliases, c).aliases
        /\ result' = alias_perform(aliases, c).res
        /\ pre' = db
        /\ UNCHANGED <<db, envs, file, writes, procs>>

NextAlias ==
    \/ PerformAlias
    \/ Continue

SpecAlias == Init /\ [][NextAlias]_vars

\* ------------------------------------- actions: the last-access refresh
LastAccess ==
    \E stored \in Timestamps, setting \in DurationSettings,
       metadata \in Metadata :
        /\ pc = "ready"
        /\ pc' = "returned"
        /\ op' = [name |-> "last_access", stored |-> stored,
                  setting |-> setting, metadata |-> metadata]
        /\ result' = Ok(last_access(stored, setting, metadata, Clock))
        /\ pre' = db
        /\ UNCHANGED <<db, envs, file, writes, procs, aliases>>

NextAccess ==
    \/ LastAccess
    \/ Continue

SpecAccess == Init /\ [][NextAccess]_vars

\* ------------------------------- actions: the steps of one invocation
\* main.rs perform taken apart at its accesses to the backing file, for
\* processes that run side by side or die on the way
Step(p, next) ==
    /\ procs' = [procs EXCEPT ![p] = next]
    /\ UNCHANGED <<db, envs, pc, pre, op, result, writes, aliases>>

\* load_context: JsonDB::load of the backing file
Load(p) ==
    /\ procs[p].pc = "start"
    /\ IF IsOk(load(file))
       THEN Step(p, [procs[p] EXCEPT !.pc = "loaded",
                                     !.loaded = load(file)[2],
                                     !.db = load(file)[2]])
       ELSE Step(p, [procs[p] EXCEPT !.pc = "exited"])
    /\ UNCHANGED file

\* the command that returns x ran on the snapshot of process p
Ran(p, x) ==
    /\ procs[p].pc = "loaded"
    /\ Fits(x.db)
    /\ Step(p, [procs[p] EXCEPT !.pc = "ran", !.db = x.db, !.flag = x.res])
    /\ UNCHANGED file

RunGroupAdd(p) ==
    \E opts \in GroupAddOpts : Ran(p, group_perform_add(procs[p].db, opts))

RunRemove(p) ==
    \E opts \in RemoveOpts : Ran(p, perform_remove(procs[p].db, opts))

\* the store_flag is Ok(false) or Err: perform returns without a store
Finish(p) ==
    /\ procs[p].pc = "ran"
    /\ procs[p].flag # Ok(TRUE)
    /\ Step(p, [procs[p] EXCEPT !.pc = "exited"])
    /\ UNCHANGED file

\* store_db: File::create opens the backing file, or refuses
Create(p) ==
    /\ procs[p].pc = "ran"
    /\ procs[p].flag = Ok(TRUE)
    /\ \/ /\ Step(p, [procs[p] EXCEPT !.pc = "created"])
          /\ file' = create(file)
       \/ /\ Step(p, [procs[p] EXCEPT !.pc = "exited", !.out = "refused"])
          /\ UNCHANGED file

\* JsonDB::store: to_json and one Write::write to the opened file
Write(p) ==
    \E out \in Sinks \ {"refused"}, longer \in BOOLEAN :
        /\ procs[p].pc = "created"
        /\ file = Empty => longer
        /\ Step(p, [procs[p] EXCEPT !.pc = "exited", !.out = out])
        /\ file' = Overwrite(file, store(procs[p].db, out).sink, longer)

\* the process dies (a crash, a kill, a power loss) where it stands
Crash(p) ==
    /\ procs[p].pc \in {"loaded", "ran", "created"}
    /\ Step(p, [procs[p] EXCEPT !.pc = "crashed", !.at = procs[p].pc])
    /\ UNCHANGED file

\* the user starts the program again
Restart(p) ==
    /\ procs[p].pc \in {"exited", "crashed"}
    /\ Step(p, NoProcess)
    /\ UNCHANGED file

\* two invocations at a time
NextRace ==
    \E p \in Procs :
        \/ Load(p)
        \/ RunGroupAdd(p)
        \/ RunRemove(p)
        \/ Finish(p)
        \/ Create(p)
        \/ Write(p)
        \/ Restart(p)

SpecRace == Init /\ [][NextRace]_vars

\* one invocation at a time, which may die
NextCrash ==
    \/ Load(1)
    \/ RunGroupAdd(1)
    \/ RunRemove(1)
    \/ Finish(1)
    \/ Create(1)
    \/ Write(1)
    \/ Crash(1)
    \/ Restart(1)

SpecCrash == Init /\ [][NextCrash]_vars

\* ============================================================ properties
Returned(name) == pc = "returned" /\ op.name = name

Range(s) == {s[i] : i \in 1..Len(s)}

\* how many entries of s equal one of the values in S
Count(s, S) == Cardinality({i \in 1..Len(s) : s[i] \in S})

\* the invariants of the data model, on a store d
RelationsResolve(d) ==
    \A i \in 1..Len(d.relations) :
        /\ \E j \in 1..Len(d.repositories) :
               d.repositories[j].id = d.relations[i].id
        /\ \E j \in 1..Len(d.groups) :
               d.groups[j].name = d.relations[i].group

UniqueIds(d) ==
    \A i, j \in 1..Len(d.repositories) :
        d.repositories[i].id = d.repositories[j].id => i = j

UniqueGroupNames(d) ==
    \A i, j \in 1..Len(d.groups) :
        d.groups[i].name = d.groups[j].name => i = j

NoDuplicateRelations(d) ==
    \A i, j \in 1..Len(d.relations) :
        d.relations[i] = d.relations[j] => i = j

Consistent(d) ==
    /\ RelationsResolve(d)
    /\ UniqueIds(d)
    /\ UniqueGroupNames(d)
    /\ NoDuplicateRelations(d)

\* C1: after an operation invoked on a consistent store, every relation
\* references a repository identifier and a group name that both exist in
\* the store (so build_repo_with_group's unwrap never meets a missing group).
C1_RelationsResolve ==
    (pc = "returned" /\ Consistent(pre)) => RelationsResolve(db)

\* the last command moved a repository from one identifier to another
RenamedRepository ==
    /\ pc = "returned"
    /\ IsOk(result)
    /\ \/ /\ op.name = "repository update"
          /\ op.opts.id # None
          /\ op.opts.id[1] # op.opts.repository_id
       \/ /\ op.name = "rename"
          /\ op.opts.from # op.opts.to_name
          /\ \/ op.opts.repository
             \/ /\ ~op.opts.group
                /\ find_repository(pre, op.opts.from) # None
                /\ find_group(pre, op.opts.from) = None

OldId == IF op.name = "rename" THEN op.opts.from ELSE op.opts.repository_id
NewId == IF op.name = "rename" THEN op.opts.to_name ELSE op.opts.id[1]

\* the groups the update is meant to leave the repository in
IntendedGroups ==
    IF op.name = "repository update" /\ renew_groups(op.opts)
    THEN Range(op.opts.new_groups)
    ELSE {pre.relations[i].group :
              i \in {k \in 1..Len(pre.relations) : pre.relations[k].id = OldId}}
         \cup (IF op.name = "repository update"
               THEN Range(op.opts.groups) ELSE {})

\* C2: after perform_update (or perform_rename) has changed a repository's
\* identifier from old_id to new_id on a consistent store, no relation has
\* old_id as its repository identifier and every intended relation has new_id.
C2_RenameSafe ==
    (RenamedRepository /\ Consistent(pre)) =>
        /\ \A i \in 1..Len(db.relations) : db.relations[i].id # OldId
        /\ \A g \in IntendedGroups : has_relation(db, NewId, g)

\* C3: register(r, group_names) with r.id not yet in the store creates every
\* name of group_names that is not already a group exactly once, with empty
\* note and abbreviate = false, and leaves the groups that exist as they are.
C3_RegisterCreatesGroups ==
    (Returned("register") /\ find_repository(pre, op.r.id) = None) =>
        /\ \A n \in Range(op.group_names) :
               find_group(pre, n) = None =>
                   /\ Count([i \in 1..Len(db.groups) |-> db.groups[i].name],
                            {n}) = 1
                   /\ new(n) \in Range(db.groups)
        /\ Len(db.groups) >= Len(pre.groups)
        /\ SubSeq(db.groups, 1, Len(pre.groups)) = pre.groups

\* C4: register(r, group_names) with r.id not yet in the store succeeds
\* whether or not the named groups exist; afterwards r is in repositories and
\* exactly one relation (r.id, g) exists for every g in group_names.
C4_RegisterSucceeds ==
    (Returned("register") /\ find_repository(pre, op.r.id) = None) =>
        /\ IsOk(result)
        /\ op.r \in Range(db.repositories)
        /\ \A g \in Range(op.group_names) :
               Count(db.relations, {NewRelation(op.r.id, g)}) = 1

\* C5: register(r, group_names) when a repository with identifier r.id already
\* exists fails with RepositoryExists and leaves repositories, groups and
\* relations unchanged.
C5_RegisterExisting ==
    (Returned("register") /\ find_repository(pre, op.r.id) # None) =>
        /\ IsErr(result)
        /\ result[2] = <<"RepositoryExists", op.r.id>>
        /\ db = pre

\* register was refused although it named a group to relate to
C5_Witness ==
    /\ Returned("register")
    /\ find_repository(pre, op.r.id) # None
    /\ Len(op.group_names) > 0
    /\ ~has_relation(pre, op.r.id, op.group_names[1])

\* C6: after an operation invoked on a consistent store, no two entries of
\* the repositories collection have the same id.
C6_UniqueIds ==
    (pc = "returned" /\ Consistent(pre)) => UniqueIds(db)

\* C7: after an operation invoked on a consistent store, no two entries of
\* the groups collection have the same name.
C7_UniqueGroupNames ==
    (pc = "returned" /\ Consistent(pre)) => UniqueGroupNames(db)

\* C8: after an operation invoked on a consistent store, the relations
\* collection does not contain the same (repository id, group name) pair
\* twice.
C8_NoDuplicateRelations ==
    (pc = "returned" /\ Consistent(pre)) => NoDuplicateRelations(db)

\* C9: relate(id, g) is idempotent: when (id, g) is already a relation it
\* returns that relation and changes nothing; otherwise it appends exactly
\* one relation (id, g) and returns it.
C9_RelateIdempotent ==
    Returned("relate") =>
        LET relation == NewRelation(op.id, op.group) IN
        /\ result = Ok(relation)
        /\ db.repositories = pre.repositories
        /\ db.groups = pre.groups
        /\ IF relation \in Range(pre.relations)
           THEN db.relations = pre.relations
           ELSE db.relations = pre.relations \o <<relation>>

\* relate was invoked on a pair that was already related
C9_Witness ==
    /\ Returned("relate")
    /\ NewRelation(op.id, op.group) \in Range(pre.relations)
    /\ Len(pre.relations) > 1

\* C10: delete_repository(id) fails with RepositoryNotFound and changes
\* nothing when id is absent; when present it removes that repository and
\* every relation whose repository id is id, and leaves the groups, the other
\* repositories and all other relations unchanged.
C10_DeleteRepository ==
    Returned("delete_repository") =>
        IF \A i \in 1..Len(pre.repositories) : pre.repositories[i].id # op.id
        THEN /\ IsErr(result)
             /\ result[2] = <<"RepositoryNotFound", op.id>>
             /\ db = pre
        ELSE LET Other(r) == r.id # op.id IN
             /\ result = Ok(Unit)
             /\ \E i \in 1..Len(pre.repositories) :
                    /\ pre.repositories[i].id = op.id
                    /\ db.repositories = Remove(pre.repositories, i)
             /\ db.relations = SelectSeq(pre.relations, Other)
             /\ db.groups = pre.groups

\* delete_repository removed relations of the repository and kept another
C10_Witness ==
    /\ Returned("delete_repository")
    /\ IsOk(result)
    /\ Len(db.relations) < Len(pre.relations)
    /\ Len(db.relations) > 0
    /\ Len(db.repositories) > 0

\* C11: delete_group(name) fails with GroupNotFound and changes nothing when
\* name is absent; when present it removes that group and every relation
\* whose group is name, and leaves the repositories, the other groups and all
\* other relations unchanged.
C11_DeleteGroup ==
    Returned("delete_group") =>
        IF \A i \in 1..Len(pre.groups) : pre.groups[i].name # op.group
        THEN /\ IsErr(result)
             /\ result[2] = <<"GroupNotFound", op.group>>
             /\ db = pre
        ELSE LET Other(r) == r.group # op.group IN
             /\ result = Ok(Unit)
             /\ \E i \in 1..Len(pre.groups) :
                    /\ pre.groups[i].name = op.group
                    /\ db.groups = Remove(pre.groups, i)
             /\ db.relations = SelectSeq(pre.relations, Other)
             /\ db.repositories = pre.repositories

\* delete_group removed relations of the group and kept one of another group
C11_Witness ==
    /\ Returned("delete_group")
    /\ IsOk(result)
    /\ Len(db.relations) < Len(pre.relations)
    /\ Len(db.relations) > 0
    /\ Len(db.groups) > 0

\* the last operation renamed a group: update_group with another name,
\* group update with rename_to, or rename directed at a group
RenamedGroup ==
    /\ pc = "returned"
    /\ IsOk(result)
    /\ \/ /\ op.name = "update_group"
          /\ op.group.name # op.old
       \/ /\ op.name = "group update"
          /\ op.opts.rename_to # None
          /\ op.opts.rename_to[1] # op.opts.name
       \/ /\ op.name = "rename"
          /\ op.opts.from # op.opts.to_name
          /\ ~op.opts.repository
          /\ \/ op.opts.group
             \/ /\ find_repository(pre, op.opts.from) = None
                /\ find_group(pre, op.opts.from) # None

OldName ==
    IF op.name = "update_group" THEN op.old
    ELSE IF op.name = "rename" THEN op.opts.from ELSE op.opts.name

NewName ==
    IF op.name = "update_group" THEN op.group.name
    ELSE IF op.name = "rename" THEN op.opts.to_name ELSE op.opts.rename_to[1]

\* C12: after a group has been renamed from old to new, find_group(new) is
\* present, find_group(old) is absent, the number of groups is unchanged,
\* every relation that pointed at old points at new, and no relation
\* references old.
C12_RenameGroup ==
    RenamedGroup =>
        /\ find_group(db, NewName) # None
        /\ find_group(db, OldName) = None
        /\ Len(db.groups) = Len(pre.groups)
        /\ Len(db.relations) = Len(pre.relations)
        /\ \A i \in 1..Len(pre.relations) :
               pre.relations[i].group = OldName =>
                   db.relations[i] = NewRelation(pre.relations[i].id, NewName)
        /\ \A i \in 1..Len(db.relations) : db.relations[i].group # OldName

\* the last command was a rename directed at the repository opts.from, to a
\* name that no repository and no group used
RenameOfRepository ==
    /\ Returned("rename")
    /\ find_repository(pre, op.opts.from) # None
    /\ \/ op.opts.repository
       \/ /\ ~op.opts.group
          /\ find_group(pre, op.opts.from) = None
    /\ find_repository(pre, op.opts.to_name) = None
    /\ find_group(pre, op.opts.to_name) = None

\* C13: perform_rename of a repository identifier from -> to, where to is
\* used by no repository and no group, succeeds with the persist signal set
\* (dry_run being false); afterwards find_repository(to) is present,
\* find_repository(from) is absent and the number of repositories is unchanged.
C13_RenameRepository ==
    RenameOfRepository =>
        /\ result = Ok(~op.opts.dry_run)
        /\ find_repository(db, op.opts.to_name) # None
        /\ find_repository(db, op.opts.from) = None
        /\ Len(db.repositories) = Len(pre.repositories)

\* the names of the groups that the relations of store d give repository id
RelatedNames(d, id) ==
    {d.relations[i].group :
         i \in {k \in 1..Len(d.relations) : d.relations[k].id = id}}

\* the last command was a repository update of a stored repository with the
\* additive group list (no replacement list) and a new identifier
AdditiveUpdate ==
    /\ Returned("repository update")
    /\ find_repository(pre, op.opts.repository_id) # None
    /\ ~renew_groups(op.opts)
    /\ op.opts.id # None
    /\ op.opts.id[1] # op.opts.repository_id

\* C14: after a repository update with the additive group list and a new
\* identifier, every group the repository was related to before the update is
\* related to the new identifier, and so is every name of the additive list
\* once the update has succeeded.
C14_AdditiveKeepsGroups ==
    AdditiveUpdate =>
        /\ RelatedNames(pre, op.opts.repository_id)
               \subseteq RelatedNames(db, op.opts.id[1])
        /\ IsOk(result) =>
               Range(op.opts.groups) \subseteq RelatedNames(db, op.opts.id[1])

\* the last command was a successful repository update of a stored repository
\* with a non-empty replacement group list
ReplacingUpdate ==
    /\ Returned("repository update")
    /\ IsOk(result)
    /\ find_repository(pre, op.opts.repository_id) # None
    /\ renew_groups(op.opts)

\* the identifier the repository has after the update
UpdatedId ==
    IF op.opts.id # None THEN op.opts.id[1] ELSE op.opts.repository_id

\* C15: after a repository update with a non-empty replacement group list,
\* every relation the repository had under its old id is deleted, and the set
\* of groups related to the repository is exactly the replacement list.
C15_ReplacementWins ==
    ReplacingUpdate =>
        /\ RelatedNames(db, UpdatedId) = Range(op.opts.new_groups)
        /\ UpdatedId # op.opts.repository_id =>
               RelatedNames(db, op.opts.repository_id) = {}

\* C16: update_repository(old_id, r) does not rewrite relations: the
\* relations collection after the call equals the one before it, for every
\* store, old_id and r.
C16_UpdateRepositoryKeepsRelations ==
    Returned("update_repository") => db.relations = pre.relations

\* C17: update_repository(old_id, r) fails with RepositoryNotFound and
\* changes nothing when no repository has id old_id; otherwise it replaces
\* only the entry matched by old_id with r, at the same position, and leaves
\* every other repository and every group unchanged.
C17_UpdateRepository ==
    Returned("update_repository") =>
        IF \A i \in 1..Len(pre.repositories) : pre.repositories[i].id # op.id
        THEN /\ IsErr(result)
             /\ result[2] = <<"RepositoryNotFound", op.id>>
             /\ db = pre
        ELSE /\ result = Ok(Unit)
             /\ \E i \in 1..Len(pre.repositories) :
                    /\ pre.repositories[i].id = op.id
                    /\ db.repositories = [pre.repositories EXCEPT ![i] = op.r]
             /\ db.groups = pre.groups

\* update_repository changed the first of two repositories
C17_Witness ==
    /\ Returned("update_repository")
    /\ IsOk(result)
    /\ Len(pre.repositories) > 1
    /\ Len(pre.groups) > 0
    /\ pre.repositories[1].id = op.id
    /\ db.repositories[1] # pre.repositories[1]

\* C18: the repository update workflow on an identifier that is not in the
\* store fails with RepositoryNotFound and leaves repositories, groups and
\* relations unchanged.
C18_UpdateUnknownRepository ==
    (Returned("repository update")
        /\ \A i \in 1..Len(pre.repositories) :
               pre.repositories[i].id # op.opts.repository_id) =>
        /\ IsErr(result)
        /\ result[2] = <<"RepositoryNotFound", op.opts.repository_id>>
        /\ db = pre

\* the update named an unknown identifier on a store that holds a repository,
\* and asked for a new id and a group
C18_Witness ==
    /\ Returned("repository update")
    /\ find_repository(pre, op.opts.repository_id) = None
    /\ Len(pre.repositories) > 0
    /\ op.opts.id # None
    /\ Len(op.opts.groups) + Len(op.opts.new_groups) > 0

\* the target group names of the last repository update that were no group
\* when the update was invoked
MissingTargets ==
    LET r == find_repository_with_groups(pre, op.opts.repository_id)[1] IN
    {n \in Range(build_new_repo(r, op.opts)[2]) : find_group(pre, n) = None}

\* the errors the last operation reported
Reported ==
    IF IsOk(result) THEN {}
    ELSE IF result[2][1] = "Arrays" THEN Range(result[2][2])
    ELSE {result[2]}

\* C19: in the repository update workflow, for each target group name that
\* is not a group: when auto_create_group is true the group is created (empty
\* note, unabbreviated) and the relation added under the new id; when it is
\* false or unset the workflow reports GroupNotFound for that name and
\* creates neither the group nor a relation to it.
C19_AutoCreateGroup ==
    (Returned("repository update")
        /\ find_repository(pre, op.opts.repository_id) # None) =>
        \A n \in MissingTargets :
            IF is_env_value_true(envs) = Some(TRUE)
            THEN /\ find_group(db, n) = Some(new(n))
                 /\ has_relation(db, UpdatedId, n)
            ELSE /\ <<"GroupNotFound", n>> \in Reported
                 /\ find_group(db, n) = None
                 /\ ~has_relation(db, UpdatedId, n)

\* C20: register_group(g) fails with GroupExists and changes nothing when a
\* group named g.name exists; otherwise it adds exactly g (the group count
\* grows by one) and changes neither repositories nor relations.
C20_RegisterGroup ==
    Returned("register_group") =>
        IF \E i \in 1..Len(pre.groups) : pre.groups[i].name = op.g.name
        THEN /\ IsErr(result)
             /\ result[2] = <<"GroupExists", op.g.name>>
             /\ db = pre
        ELSE /\ result = Ok(Unit)
             /\ db.groups = Append(pre.groups, op.g)
             /\ db.repositories = pre.repositories
             /\ db.relations = pre.relations

\* register_group was refused on a store that holds a relation
C20_Witness ==
    /\ Returned("register_group")
    /\ IsErr(result)
    /\ Len(pre.groups) > 0
    /\ Len(pre.relations) > 0

\* C21: delete_relation(id, g) fails with RelationNotFound and changes
\* nothing when the pair is not a relation; otherwise it removes that pair so
\* that has_relation(id, g) is false afterwards, and leaves all other
\* relations, all repositories and all groups unchanged.
C21_DeleteRelation ==
    Returned("delete_relation") =>
        LET relation == NewRelation(op.id, op.group)
            Other(r) == r # relation
        IN IF relation \notin Range(pre.relations)
           THEN /\ IsErr(result)
                /\ result[2] = <<"RelationNotFound", op.id, op.group>>
                /\ db = pre
           ELSE /\ result = Ok(Unit)
                /\ ~has_relation(db, op.id, op.group)
                /\ db.relations = SelectSeq(pre.relations, Other)
                /\ db.repositories = pre.repositories
                /\ db.groups = pre.groups

\* the names of the groups of store d, one entry per group
GroupNames(d) == [i \in 1..Len(d.groups) |-> d.groups[i].name]

\* the targets of the last group removal that were groups with at least one
\* relation when the command was invoked
NonEmptyTargets ==
    {n \in Range(op.opts.args) :
         /\ find_group(pre, n) # None
         /\ Len(find_relation_with_group(pre, n)) > 0}

\* C22: group removal guard: without the force flag, removing a group that
\* still has at least one relation is reported as GroupNotEmpty and leaves
\* the group and its relations in the store; with the force flag the group is
\* deleted together with all its relations.
C22_GroupRemovalGuard ==
    Returned("group remove") =>
        /\ db.repositories = pre.repositories
        /\ \A n \in NonEmptyTargets :
               IF op.opts.force
               THEN /\ Count(GroupNames(db), {n}) < Count(GroupNames(pre), {n})
                    /\ find_relation_with_group(db, n) = <<>>
               ELSE /\ <<"GroupNotEmpty", n>> \in Reported
                    /\ Count(GroupNames(db), {n}) = Count(GroupNames(pre), {n})
                    /\ find_group(db, n) = find_group(pre, n)
                    /\ find_relation_with_group(db, n)
                           = find_relation_with_group(pre, n)

\* without force, a group with a relation was refused while another target
\* of the same command was deleted
C22_Witness ==
    /\ Returned("group remove")
    /\ ~op.opts.force
    /\ NonEmptyTargets # {}
    /\ Len(db.groups) < Len(pre.groups)

\* the errors of the last operation, with those that a nested command
\* reported in an aggregate of its own
RECURSIVE Flatten(_, _)
Flatten(errs, i) ==
    IF i > Len(errs) THEN {}
    ELSE (IF errs[i][1] = "Arrays" THEN Range(errs[i][2]) ELSE {errs[i]})
             \cup Flatten(errs, i + 1)

ReportedDeep ==
    IF IsOk(result) THEN {}
    ELSE IF result[2][1] = "Arrays" THEN Flatten(result[2][2], 1)
    ELSE {result[2]}

RepositoryIds(d) == [i \in 1..Len(d.repositories) |-> d.repositories[i].id]

\* C23: delete-many (perform_remove over a list of names): a name that is
\* both a repository id and a group name yields RepositoryAndGroupExists and
\* deletes neither; a name that is neither yields RepositoryAndGroupNotFound;
\* a name that is only a repository id deletes that repository with its
\* relations; a name that is only a group name goes through the group removal
\* guard (refused as GroupNotEmpty while it has relations and force is off,
\* deleted with its relations otherwise).
C23_DeleteMany ==
    Returned("remove") =>
        \A n \in Range(op.opts.targets) :
            LET r == find_repository(pre, n)
                g == find_group(pre, n)
                removed_group ==
                    /\ Count(GroupNames(db), {n}) < Count(GroupNames(pre), {n})
                    /\ find_relation_with_group(db, n) = <<>>
                \* a name listed again is judged again, on the store that
                \* the targets before it have left
                refused_group ==
                    /\ <<"GroupNotEmpty", n>> \in ReportedDeep
                    /\ Count(op.opts.targets, {n}) = 1 =>
                          /\ Count(GroupNames(db), {n})
                                 = Count(GroupNames(pre), {n})
                          /\ find_group(db, n) = g
            IN IF r # None /\ g # None
               THEN /\ <<"RepositoryAndGroupExists", n>> \in ReportedDeep
                    /\ find_repository(db, n) = r
                    /\ find_group(db, n) = g
               ELSE IF r = None /\ g = None
               THEN <<"RepositoryAndGroupNotFound", n>> \in ReportedDeep
               ELSE IF r # None
               THEN /\ Count(RepositoryIds(db), {n})
                           < Count(RepositoryIds(pre), {n})
                    /\ find_relation_with_repository(db, n) = <<>>
               ELSE /\ removed_group \/ (~op.opts.force /\ refused_group)
                    /\ find_relation_with_group(pre, n) = <<>> => removed_group
                    /\ (~op.opts.force /\ op.opts.targets[1] = n
                           /\ find_relation_with_group(pre, n) # <<>>)
                          => refused_group

\* a command with several targets met a name that is both a repository id
\* and a group name, on a store that holds a relation
C23_Witness ==
    /\ Returned("remove")
    /\ \E n \in Range(op.opts.targets) :
           find_repository(pre, n) # None /\ find_group(pre, n) # None
    /\ Len(pre.relations) > 0
    /\ Len(op.opts.targets) > 1

\* the last command was one of the three removals over a list of targets
MultiTargetRemoval ==
    /\ pc = "returned"
    /\ op.name \in {"repository remove", "group remove", "remove"}

RemovalTargets ==
    IF op.name = "repository remove" THEN op.opts.ids
    ELSE IF op.name = "group remove" THEN op.opts.args
    ELSE op.opts.targets

\* the entries of the aggregate error that the last command returned
ErrorEntries == IF IsOk(result) THEN <<>> ELSE result[2][2]

\* how many repositories and groups the last command deleted
Deleted ==
    (Len(pre.repositories) - Len(db.repositories))
        + (Len(pre.groups) - Len(db.groups))

\* C24: the multi-target removals (repository remove, group remove and
\* delete-many) do not stop at the first failure: every target either deletes
\* its repository or group or adds one entry to the aggregate error that is
\* returned, whatever happened to the targets before it.
C24_AllTargetsProcessed ==
    MultiTargetRemoval =>
        /\ IsErr(result) => result[2][1] = "Arrays" /\ Len(result[2][2]) > 0
        /\ Len(ErrorEntries) + Deleted = Len(RemovalTargets)

\* delete-many failed on its first target and deleted a later one
C24_Witness ==
    /\ Returned("remove")
    /\ Len(op.opts.targets) > 1
    /\ IsErr(find_repo_or_group(pre, op.opts.targets[1]))
    /\ Deleted > 0

\* the last command was a prune that asked for no confirmation or got "yes"
Pruned ==
    /\ Returned("prune")
    /\ ~op.opts.inquiry

\* C25: prune without confirmation and without dry-run deletes exactly the
\* groups that have zero relations and the repositories whose path does not
\* exist (each with its relations) and changes nothing else.
C25_PruneExactly ==
    (Pruned /\ ~op.opts.dry_run) =>
        LET StaysG(g) == find_relation_with_group(pre, g.name) # <<>>
            StaysR(r) == exists(r.path)
            gone == {pre.repositories[i].id :
                        i \in {k \in 1..Len(pre.repositories) :
                                   ~exists(pre.repositories[k].path)}}
            StaysRel(r) == r.id \notin gone
        IN /\ result = Ok(TRUE)
           /\ db.groups = SelectSeq(pre.groups, StaysG)
           /\ db.repositories = SelectSeq(pre.repositories, StaysR)
           /\ db.relations = SelectSeq(pre.relations, StaysRel)

\* C26: prune with dry-run set leaves the store unchanged (repositories,
\* groups and relations after perform_prune equal those before it) and
\* signals no persist: the result is Ok(false).
C26_DryRunUnchanged ==
    (Returned("prune") /\ op.opts.dry_run /\ ~IsErr(result)) =>
        /\ db = pre
        /\ result = Ok(FALSE)

\* C26 as amended: prune with dry-run set never signals a persist (the
\* result is Ok(false) unless the prompt failed), but the collections in
\* memory are pruned exactly as they are without dry-run.
C26_DryRunSignalsNoPersist ==
    (Returned("prune") /\ op.opts.dry_run) =>
        /\ result # Ok(TRUE)
        /\ ~IsErr(result) => result = Ok(FALSE)
        /\ db = perform_prune(pre, [op.opts EXCEPT !.dry_run = FALSE],
                              op.answer).db

\* C26 witness: a dry-run prune returned Ok(false) after it deleted a
\* candidate from the collections in memory.
C26_Witness ==
    /\ Returned("prune") /\ op.opts.dry_run
    /\ result = Ok(FALSE)
    /\ db # pre

\* the last command was a prune that asked for confirmation and got answer
Asked(answer) ==
    /\ Returned("prune")
    /\ op.opts.inquiry
    /\ op.answer = answer

\* C27: prune with confirmation enabled and the answer "no" is a full no-op
\* (nothing is deleted from the store, the result is Ok(false)); an I/O
\* failure of the prompt aborts with an error before any deletion.
C27_PromptRefusedOrFailed ==
    /\ Asked(Ok(FALSE)) => (db = pre /\ result = Ok(FALSE))
    /\ Asked(Err(<<"IO">>)) => (db = pre /\ result = Err(<<"IO">>))

\* C27 witness: the answer "no" kept a store that has a prune candidate.
C27_Witness ==
    /\ Asked(Ok(FALSE))
    /\ find_empty_groups(pre) # <<>>
    /\ find_non_exists_path_repositoreis(pre) # <<>>
    /\ db = pre

\* C28: persistence happens at most once per invocation, after the command
\* has finished, and only when the command returned Ok(true): when it
\* returned Ok(false) or Err, also after mutations in memory, the backing
\* file is not written and still holds the store that was loaded.
C28_StoreOnlyOnOkTrue ==
    pc = "returned" =>
        /\ writes <= 1
        /\ writes = 1 => result = Ok(TRUE)
        /\ result # Ok(TRUE) => (writes = 0 /\ load(file) = Ok(pre))
        /\ (result = Ok(TRUE) /\ op.out = "all") =>
               (writes = 1 /\ file = to_json(db)[2])

\* C28 witness: a command returned Err after it had changed the store in
\* memory, and the backing file was not written.
C28_Witness ==
    /\ pc = "returned"
    /\ IsErr(result)
    /\ db # pre
    /\ writes = 0
    /\ load(file) = Ok(pre)

MemberIds(d, name) ==
    {d.relations[i].id :
        i \in {k \in 1..Len(d.relations) :
                   /\ d.relations[k].group = name
                   /\ find_repository(d, d.relations[k].id) # None}}

\* C30: group_repositories returns a mapping whose key set is exactly the
\* set of group names in the store; a group with no member maps to the
\* empty list (its key is present), and each value lists the repositories
\* related to that group.
C30_GroupRepositories ==
    Returned("group_repositories") =>
        /\ IsOk(result)
        /\ db = pre
        /\ DOMAIN result[2] = Range(GroupNames(db))
        /\ \A name \in DOMAIN result[2] :
              /\ Range(result[2][name]) \subseteq Range(db.repositories)
              /\ Range(RepositoryIds([repositories |-> result[2][name]]))
                     = MemberIds(db, name)
              /\ MemberIds(db, name) = {} => result[2][name] = <<>>

\* C30 witness: the listing of a store in which one group has a member and
\* another has none.
C30_Witness ==
    /\ Returned("group_repositories")
    /\ \E g, h \in DOMAIN result[2] :
          result[2][g] = <<>> /\ result[2][h] # <<>>

\* the last command was a rename that named no kind and whose from resolved
\* to an entity of the given kind ("R" or "G")
RenameResolved(kind) ==
    /\ Returned("rename")
    /\ ~op.opts.repository /\ ~op.opts.group
    /\ find_repo_or_group(pre, op.opts.from)[1] = "Ok"
    /\ find_repo_or_group(pre, op.opts.from)[2][1] = kind

\* C31: perform_rename without an explicit kind: when from is a repository
\* and to is already a repository id, or from is a group and to is already a
\* group name, the rename fails with ToNameExist and the store is unchanged.
C31_RenameCollision ==
    /\ (RenameResolved("R") /\ find_repository(pre, op.opts.to_name) # None)
          => (IsErr(result) /\ result[2][1] = "ToNameExist" /\ db = pre)
    /\ (RenameResolved("G") /\ find_group(pre, op.opts.to_name) # None)
          => (IsErr(result) /\ result[2][1] = "ToNameExist" /\ db = pre)

\* C31 witness: a rename from one stored group to the name of another
\* stored group was refused.
C31_Witness ==
    /\ RenameResolved("G")
    /\ op.opts.from # op.opts.to_name
    /\ find_group(pre, op.opts.to_name) # None
    /\ result = Err(<<"ToNameExist", op.opts.to_name>>)

\* process p has just completed its store with a sink that took the whole
\* document, into the file as its own File::create had left it
StoredWhole(p) ==
    /\ procs[p].pc = "created"
    /\ file = Empty
    /\ procs'[p].pc = "exited"
    /\ procs'[p].out = "all"

\* process p has just completed its store with a sink that took the whole
\* document, whatever the file held
StoredLast(p) ==
    /\ procs[p].pc = "created"
    /\ procs'[p].pc = "exited"
    /\ procs'[p].out = "all"

\* C32: two processes that each load the same backing file, mutate their own
\* snapshot and store it are not serialized by any lock or version check:
\* the file finally holds the snapshot of the process that stored last and
\* the changes of the other process are lost.
C32_LastStoreWins ==
    [][\A p \in Procs : StoredLast(p) => load(file') = Ok(procs[p].db)]_vars

\* C32 as amended: a store goes through whatever the file has become since
\* the load, and when it writes into the file as its own File::create left
\* it (no other process has written in between) the file then holds the
\* snapshot of the process that stored, the changes of the other process
\* being lost.
C32_LastWriteWins ==
    [][\A p \in Procs : StoredWhole(p) => load(file') = Ok(procs[p].db)]_vars

\* C32 witness: both processes loaded the same snapshot, each added a group
\* of its own and stored; the file holds the snapshot of process 2 and the
\* group that process 1 added is not in it.
C32_Witness ==
    /\ \A p \in Procs :
          /\ procs[p].pc = "exited"
          /\ procs[p].flag = Ok(TRUE)
          /\ procs[p].out = "all"
    /\ procs[1].loaded = procs[2].loaded
    /\ load(file) = Ok(procs[2].db)
    /\ \E g \in Range(procs[1].db.groups) :
          /\ g \notin Range(procs[1].loaded.groups)
          /\ g \notin Range(procs[2].db.groups)

\* C33: the empty-group candidates of prune are exactly the groups with zero
\* relations: find_empty_groups returns group g if and only if
\* find_relation_with_group(g) is empty, in every reachable store state.
C33_EmptyGroupCandidates ==
    Returned("prune") =>
        \A g \in Range(GroupNames(pre)) :
            g \in Range(find_empty_groups(pre))
                <=> find_relation_with_group(pre, g) = <<>>

\* C34: find_groups_of(id) returns the groups of the relations whose
\* repository id is id, in relation insertion order, and
\* find_repositories_of(g) returns the repositories of the relations whose
\* group is g in the same order; the result has one entry per such relation.
C34_OneEntryPerRelation ==
    /\ Returned("find_groups_of") =>
          LET rels == find_relation_with_repository(db, op.id) IN
          /\ IsOk(result)
          /\ Len(result[2]) = Len(rels)
          /\ \A i \in 1..Len(rels) : result[2][i].name = rels[i].group
    /\ Returned("find_repositories_of") =>
          LET rels == find_relation_with_group(db, op.group_name) IN
          /\ IsOk(result)
          /\ Len(result[2]) = Len(rels)
          /\ \A i \in 1..Len(rels) : result[2][i].id = rels[i].id

\* C35: store-back is not atomic with respect to crashes: the backing file
\* is truncated on open and then written, so a crash between the two steps
\* leaves a truncated or empty backing file and the previous snapshot is
\* lost (the file no longer loads).
C35_CrashLosesSnapshot ==
    /\ procs[1].pc = "created" => file = Empty
    /\ (procs[1].pc = "crashed" /\ procs[1].at = "created") =>
          /\ file = Empty
          /\ IsErr(load(file))
          /\ load(file) # Ok(procs[1].loaded)

\* C35 witness: the process died between File::create and the write, and
\* the snapshot it had loaded, which held a group, is gone from the file.
C35_Witness ==
    /\ procs[1].pc = "crashed"
    /\ procs[1].at = "created"
    /\ procs[1].loaded.groups # <<>>
    /\ IsErr(load(file))

\* the staleness duration in seconds: the setting, or 24 hours without one
StalenessSecs == IF op.setting = None THEN Day ELSE op.setting[1][2]

\* C36: last-access refresh: Repository::last_access leaves the stored
\* timestamp unchanged when it is present and not older than the staleness
\* duration (default 24 hours when the setting is absent); when it is absent
\* or stale it is replaced by the filesystem access time if the path's
\* metadata is readable, and left as it was if not.
C36_LastAccessRefresh ==
    (/\ Returned("last_access")
     /\ op.setting = None \/ op.setting[1][1] = "Value"
     /\ op.metadata[1] = "readable" => op.metadata[2] # None) =>
        LET recent == /\ op.stored # None
                      /\ ~(Clock - op.stored[1] > StalenessSecs)
        IN result[2] = IF recent \/ op.metadata[1] = "unreadable"
                       THEN op.stored
                       ELSE op.metadata[2]

\* C37: dry-run never persists: for every mutating command that carries a
\* dry_run flag (group add/remove/update, repository update/remove, rename,
\* remove, prune), when dry_run is set and the command succeeds the returned
\* persist signal is false, so the backing file is not written.
C37_DryRunNeverPersists ==
    (/\ pc = "returned"
     /\ op.name \in {"group add", "group remove", "group update",
                     "repository update", "repository remove", "rename",
                     "remove", "prune"}
     /\ op.opts.dry_run
     /\ IsOk(result)) => result = Ok(FALSE)

\* C38: find_orphan_repositories returns exactly the repositories that no
\* relation references by id (a repository is returned if and only if
\* find_relation_with_repository of its id is empty), in repository order,
\* whatever the order and repetition of relations.
C38_OrphanRepositories ==
    Returned("find_orphan_repositories") =>
        LET Orphan(r) == find_relation_with_repository(db, r.id) = <<>>
        IN /\ result = Ok(SelectSeq(db.repositories, Orphan))
           /\ db = pre

\* C38 witness: of two repositories one is returned, the other being
\* referenced by two relations.
C38_Witness ==
    /\ Returned("find_orphan_repositories")
    /\ Len(db.repositories) = 2
    /\ Len(result[2]) = 1
    /\ Len(db.relations) = 2
    /\ db.relations[1].id = db.relations[2].id

\* C39: alias command: whenever AliasOpts::validate succeeds, the selected
\* mode's handler has what it needs, so perform never reaches an
\* unreachable!() branch (in particular update mode always has an alias name
\* and a non-empty command list from which build_alias yields an alias).
C39_AliasNeverUnreachable ==
    (Returned("alias") /\ IsOk(validate(op.opts, op.manager))) =>
        /\ result # Unreachable
        /\ validate(op.opts, op.manager) = Ok("Upadte") =>
              build_alias(op.opts) # None

====
